---- MODULE Spec2Model ----
(***************************************************************************)
(* Model of chain-core's address scheme (tx/data/address.rs) and of the    *)
(* withdrawal transaction (state/account/op/data/withdraw.rs).             *)
(*                                                                         *)
(* Bytes are naturals in 0..255, byte strings are sequences of bytes, and  *)
(* text is a sequence of one-character strings.  The binary codec          *)
(* (parity_scale_codec) and the bech32 crate are modelled by what they     *)
(* compute, so that a round trip or a rejection is able to fail.           *)
(***************************************************************************)
EXTENDS Integers, Sequences, FiniteSets, TLC

(***************************************************************************)
(* Bounds of the model.                                                    *)
(***************************************************************************)
\* longest output list of a modelled transaction
MaxOutputs == 2
\* most bytes appended behind an encoding before it is decoded
MaxExtra == 1
\* stand-in for the coin module's maximum (the real one exceeds TLC's integers)
MaxCoin == 1000

(***************************************************************************)
(* Generic helpers.                                                        *)
(***************************************************************************)
Range(s) == {s[i] : i \in 1..Len(s)}

Pow2(n) == 2 ^ n

Repeat(b, n) == [i \in 1..n |-> b]

StartsWith(s, p) == Len(p) <= Len(s) /\ SubSeq(s, 1, Len(p)) = p

\* s with the element at position i replaced by c
ReplaceAt(s, i, c) == [s EXCEPT ![i] = c]

Drop(s, n) == SubSeq(s, n + 1, Len(s))

RECURSIVE Flatten(_)
Flatten(ss) == IF ss = <<>> THEN <<>> ELSE Head(ss) \o Flatten(Tail(ss))

\* bitwise exclusive or of two 5-bit values
Xor5 ==
  [a \in 0..31 |-> [b \in 0..31 |->
     LET bit(x, k) == (x \div Pow2(k)) % 2
         f[k \in 0..5] == IF k = 5 THEN 0
                          ELSE ((bit(a, k) + bit(b, k)) % 2) * Pow2(k) + f[k + 1]
     IN f[0]]]

\* bitwise exclusive or of two naturals (the ^ of u32)
RECURSIVE Xor(_, _)
Xor(a, b) ==
  IF a = 0 THEN b
  ELSE IF b = 0 THEN a
  ELSE Xor5[a % 32][b % 32] + 32 * Xor(a \div 32, b \div 32)

(***************************************************************************)
(* Text.  The modelled inputs are ASCII letters and digits; each character *)
(* stands for its byte.                                                    *)
(***************************************************************************)
Digits == << "0", "1", "2", "3", "4", "5", "6", "7", "8", "9" >>

Upper ==
  << "A", "B", "C", "D", "E", "F", "G", "H", "I", "J", "K", "L", "M",
     "N", "O", "P", "Q", "R", "S", "T", "U", "V", "W", "X", "Y", "Z" >>

Lower ==
  << "a", "b", "c", "d", "e", "f", "g", "h", "i", "j", "k", "l", "m",
     "n", "o", "p", "q", "r", "s", "t", "u", "v", "w", "x", "y", "z" >>

Chars == Range(Digits) \cup Range(Upper) \cup Range(Lower)

IsDigit(c) == c \in Range(Digits)

IsUpper(c) == c \in Range(Upper)

IsLower(c) == c \in Range(Lower)

\* the byte of a character: '0' is 48, 'A' is 65, 'a' is 97
Ascii ==
  [c \in Chars |->
     IF IsDigit(c) THEN 47 + CHOOSE i \in 1..10 : Digits[i] = c
     ELSE IF IsUpper(c) THEN 64 + CHOOSE i \in 1..26 : Upper[i] = c
     ELSE 96 + CHOOSE i \in 1..26 : Lower[i] = c]

\* the lowercase of a character
ToLower ==
  [c \in Chars |-> IF IsUpper(c) THEN Lower[CHOOSE i \in 1..26 : Upper[i] = c] ELSE c]

(***************************************************************************)
(* The bech32 crate (BIP-173), as called by to_cro and from_cro.           *)
(***************************************************************************)
SEP == "1"

CHARSET ==
  << "q", "p", "z", "r", "y", "9", "x", "8", "g", "f", "2", "t", "v", "d", "w", "0",
     "s", "3", "j", "n", "5", "4", "k", "h", "c", "e", "6", "m", "u", "a", "7", "l" >>

\* CHARSET_REV: the 5-bit value of a character in either case, -1 for any other
CHARSET_REV ==
  [c \in Chars |->
     IF \E i \in 1..32 : CHARSET[i] = ToLower[c]
     THEN (CHOOSE i \in 1..32 : CHARSET[i] = ToLower[c]) - 1
     ELSE -1]

\* GEN: the generator of the checksum, 0x3b6a57b2 0x26508e6d 0x1ea119fa 0x3d4233dd 0x2a1462b3
GEN == << 996825010, 642813549, 513874426, 1027748829, 705979059 >>

\* the exclusive or of the generators selected by the bits of the top five bits b
GenMask ==
  [b \in 0..31 |->
     LET f[i \in 0..5] == IF i = 5 THEN 0
                          ELSE Xor(IF (b \div Pow2(i)) % 2 = 1 THEN GEN[i + 1] ELSE 0, f[i + 1])
     IN f[0]]

\* one round of polymod
polymod_step(chk, v) ==
  LET b == chk \div Pow2(25)
  IN Xor(Xor((chk % Pow2(25)) * 32, v), GenMask[b])

RECURSIVE polymod_from(_, _, _)
polymod_from(values, i, chk) ==
  IF chk < 0 \/ i > Len(values) THEN chk
  ELSE polymod_from(values, i + 1, polymod_step(chk, values[i]))

polymod(values) == polymod_from(values, 1, 1)

hrp_expand(hrp) ==
  [i \in 1..Len(hrp) |-> Ascii[hrp[i]] \div 32] \o <<0>> \o
  [i \in 1..Len(hrp) |-> Ascii[hrp[i]] % 32]

verify_checksum(hrp, data) == polymod(hrp_expand(hrp) \o data) = 1

create_checksum(hrp, data) ==
  LET plm == Xor(polymod(hrp_expand(hrp) \o data \o Repeat(0, 6)), 1)
  IN [i \in 1..6 |-> (plm \div Pow2(5 * (6 - i))) % 32]

\* convert_bits: regroup `from`-bit values into `to`-bit values
RECURSIVE convert_bits_from(_, _, _, _, _, _, _)
convert_bits_from(data, from, to, pad, i, acc, bits) ==
  IF acc < 0 \/ i > Len(data)
  THEN IF pad
       THEN [ok |-> TRUE,
             out |-> IF bits > 0 THEN <<(acc * Pow2(to - bits)) % Pow2(to)>> ELSE <<>>]
       ELSE IF bits >= from \/ (acc * Pow2(to - bits)) % Pow2(to) # 0
            THEN [ok |-> FALSE, out |-> <<>>]
            ELSE [ok |-> TRUE, out |-> <<>>]
  ELSE LET acc1 == acc * Pow2(from) + data[i]
           bits1 == bits + from
           n == bits1 \div to
           left == bits1 - n * to
           emitted == [k \in 1..n |-> (acc1 \div Pow2(bits1 - k * to)) % Pow2(to)]
           rest == convert_bits_from(data, from, to, pad, i + 1, acc1 % Pow2(left), left)
       IN [ok |-> rest.ok, out |-> emitted \o rest.out]

convert_bits(data, from, to, pad) == convert_bits_from(data, from, to, pad, 1, 0, 0)

\* ToBase32 for Vec<u8>
to_base32(bytes) == convert_bits(bytes, 8, 5, TRUE).out

\* FromBase32 for Vec<u8>: an Err on bad padding
from_base32(data) == convert_bits(data, 5, 8, FALSE)

\* check_hrp: the human-readable part is not empty, printable and of one case
check_hrp(hrp) ==
  /\ Len(hrp) >= 1
  /\ Len(hrp) <= 83
  /\ \A i \in 1..Len(hrp) : Ascii[hrp[i]] >= 33 /\ Ascii[hrp[i]] <= 126
  /\ ~((\E i \in 1..Len(hrp) : IsLower(hrp[i])) /\ (\E i \in 1..Len(hrp) : IsUpper(hrp[i])))

\* bech32::encode
bech32_encode(hrp, data) ==
  IF ~check_hrp(hrp) THEN [ok |-> FALSE, text |-> <<>>]
  ELSE LET low == [i \in 1..Len(hrp) |-> ToLower[hrp[i]]]
           all == data \o create_checksum(low, data)
       IN [ok |-> TRUE, text |-> low \o <<SEP>> \o [i \in 1..Len(all) |-> CHARSET[all[i] + 1]]]

\* the position of the last separator of s, 0 when it has none (str::rfind)
rfind_sep(s) ==
  IF \E i \in 1..Len(s) : s[i] = SEP
  THEN CHOOSE i \in 1..Len(s) : s[i] = SEP /\ \A j \in (i + 1)..Len(s) : s[j] # SEP
  ELSE 0

\* bech32::decode: [ok, err, hrp, data]
bech32_decode(s) ==
  LET sep == rfind_sep(s)
      raw_hrp == SubSeq(s, 1, sep - 1)
      raw_data == SubSeq(s, sep + 1, Len(s))
      fail(e) == [ok |-> FALSE, err |-> e, hrp |-> <<>>, data |-> <<>>]
      chars == Range(s)
      hrp_bytes == [i \in 1..Len(raw_hrp) |-> ToLower[raw_hrp[i]]]
      data == [i \in 1..Len(raw_data) |-> CHARSET_REV[raw_data[i]]]
  IN IF Len(s) < 8 THEN fail("InvalidLength")
     ELSE IF sep = 0 THEN fail("MissingSeparator")
     ELSE IF Len(raw_hrp) = 0 \/ Len(raw_data) < 6 \/ Len(raw_hrp) > 83 THEN fail("InvalidLength")
     ELSE IF \E i \in 1..Len(raw_hrp) : Ascii[raw_hrp[i]] < 33 \/ Ascii[raw_hrp[i]] > 126 THEN fail("InvalidChar")
     ELSE IF \E i \in 1..Len(raw_data) : data[i] < 0 THEN fail("InvalidChar")
     ELSE IF (\E c \in chars : IsLower(c)) /\ (\E c \in chars : IsUpper(c)) THEN fail("MixedCase")
     ELSE IF ~verify_checksum(hrp_bytes, data) THEN fail("InvalidChecksum")
     ELSE [ok |-> TRUE, err |-> "", hrp |-> hrp_bytes, data |-> SubSeq(data, 1, Len(data) - 6)]

(***************************************************************************)
(* Results.  A decode returns the value and the input left behind it.      *)
(***************************************************************************)
Nothing == [tag |-> "None"]

Ok(v, rest) == [ok |-> TRUE, err |-> "", val |-> v, rest |-> rest]

Fail(e) == [ok |-> FALSE, err |-> e, val |-> Nothing, rest |-> <<>>]

(***************************************************************************)
(* parity_scale_codec: the primitives the two types are built from.        *)
(***************************************************************************)
\* the n low bytes of x, little endian
RECURSIVE le_bytes(_, _)
le_bytes(x, n) == IF n = 0 THEN <<>> ELSE <<x % 256>> \o le_bytes(x \div 256, n - 1)

\* the value of little-endian bytes
RECURSIVE le_value(_)
le_value(bytes) == IF bytes = <<>> THEN 0 ELSE Head(bytes) + 256 * le_value(Tail(bytes))

\* Input::read: the next n bytes, or an error on short input
read(input, n) ==
  IF Len(input) < n THEN Fail("Not enough data to fill buffer")
  ELSE Ok(SubSeq(input, 1, n), Drop(input, n))

u64_encode(x) == le_bytes(x, 8)

u64_decode(input) ==
  LET r == read(input, 8)
  IN IF r.ok THEN Ok(le_value(r.val), r.rest) ELSE r

\* Compact<u32>, the length prefix of a Vec: one byte below 64, two below 16384, else four
Compact_encode(n) ==
  IF n < 64 THEN <<n * 4>>
  ELSE IF n < 16384 THEN le_bytes(n * 4 + 1, 2)
  ELSE le_bytes(n * 4 + 2, 4)

\* the two low bits of the first byte select the width; the big-integer mode (3)
\* holds lengths of 2^30 and more, beyond any input of the model
Compact_decode(input) ==
  IF input = <<>> THEN Fail("Not enough data to fill buffer")
  ELSE LET mode == Head(input) % 4
           width == IF mode = 0 THEN 1 ELSE IF mode = 1 THEN 2 ELSE 4
           r == read(input, width)
       IN IF mode = 3 THEN Fail("unexpected prefix decoding Compact<u32>")
          ELSE IF r.ok THEN Ok(le_value(r.val) \div 4, r.rest) ELSE r

(***************************************************************************)
(* ExtendedAddr: tx/data/address.rs                                        *)
(***************************************************************************)
\* the length of TreeRoot = H256 = [u8; 32]
HashLen == 32

OrTree(root) == [tag |-> "OrTree", root |-> root]

\* [u8; 32] is encoded as its bytes
H256_decode(input) == read(input, HashLen)

\* ExtendedAddr_encode pushing the discriminant of another variant
ExtendedAddr_encode_tag1(addr) == <<1>> \o addr.root

\* impl Encode for ExtendedAddr: the discriminant 0, then the root
ExtendedAddr_encode(addr) == <<0>> \o addr.root

\* ExtendedAddr_decode with a fallback arm: any discriminant is read as OrTree
ExtendedAddr_decode_fallback(input) ==
  IF input = <<>> THEN Fail("Not enough data to fill buffer")
  ELSE LET address == H256_decode(Tail(input))
       IN IF address.ok THEN Ok(OrTree(address.val), address.rest) ELSE address

\* impl Decode for ExtendedAddr: read the discriminant, dispatch on it
ExtendedAddr_decode(input) ==
  IF input = <<>> THEN Fail("Not enough data to fill buffer")
  ELSE LET tag == Head(input)
           address == H256_decode(Tail(input))
       IN IF tag = 0
          THEN IF address.ok THEN Ok(OrTree(address.val), address.rest) ELSE address
          ELSE Fail("No such variant in enum ExtendedAddr")

(***************************************************************************)
(* Networks and their human-readable parts (init/network.rs).              *)
(***************************************************************************)
Networks == {"Mainnet", "Testnet", "Devnet"}

get_bech32_human_part_from_network(network) ==
  CASE network = "Mainnet" -> <<"c", "r", "o">>
    [] network = "Testnet" -> <<"t", "c", "r", "o">>
    [] network = "Devnet" -> <<"d", "c", "r", "o">>

(***************************************************************************)
(* The textual form: impl CroAddress<ExtendedAddr> for ExtendedAddr.       *)
(* A call returns Ok(addr) or Err(err), or it panics.                      *)
(***************************************************************************)
CroOk(addr) == [kind |-> "Ok", err |-> "", msg |-> "", addr |-> addr]

CroErr(e, m) == [kind |-> "Err", err |-> e, msg |-> m, addr |-> Nothing]

CroPanic(m) == [kind |-> "Panic", err |-> "", msg |-> m, addr |-> Nothing]

\* to_cro under the human-readable part of Mainnet whatever the network
to_cro_mainnet(addr, network) ==
  LET encoded == bech32_encode(get_bech32_human_part_from_network("Mainnet"), to_base32(addr.root))
  IN IF encoded.ok THEN [kind |-> "Ok", text |-> encoded.text]
     ELSE [kind |-> "Panic", text |-> <<>>]

\* to_cro: Ok(text), or the panic of expect("bech32 encoding error")
to_cro(addr, network) ==
  LET checked_data == to_base32(addr.root)
      encoded == bech32_encode(get_bech32_human_part_from_network(network), checked_data)
  IN IF encoded.ok THEN [kind |-> "Ok", text |-> encoded.text]
     ELSE [kind |-> "Panic", text |-> <<>>]

\* from_cro without the check of the network's prefix
from_cro_unchecked(encoded_addr, network) ==
  LET decoded == bech32_decode(encoded_addr)
      hash == from_base32(decoded.data)
  IN IF ~decoded.ok THEN CroErr("Bech32Error", decoded.err)
     ELSE IF ~hash.ok THEN CroErr("ConvertError", "")
     ELSE IF Len(hash.out) # HashLen
          THEN CroPanic("source slice length does not match destination slice length")
     ELSE CroOk(OrTree(hash.out))

\* from_cro validating the checksum before it checks the network's prefix
from_cro_decode_first(encoded_addr, network) ==
  LET decoded == bech32_decode(encoded_addr)
      hash == from_base32(decoded.data)
  IN IF ~decoded.ok THEN CroErr("Bech32Error", decoded.err)
     ELSE IF ~StartsWith(encoded_addr, get_bech32_human_part_from_network(network))
          THEN CroErr("InvalidNetwork", "")
     ELSE IF ~hash.ok THEN CroErr("ConvertError", "")
     ELSE IF Len(hash.out) # HashLen
          THEN CroPanic("source slice length does not match destination slice length")
     ELSE CroOk(OrTree(hash.out))

\* from_cro: the prefix check, bech32::decode, from_base32, then copy_from_slice
\* into a [u8; 32], which panics on a slice of any other length
from_cro(encoded_addr, network) ==
  IF ~StartsWith(encoded_addr, get_bech32_human_part_from_network(network))
  THEN CroErr("InvalidNetwork", "")
  ELSE LET decoded == bech32_decode(encoded_addr)
           hash == from_base32(decoded.data)
       IN IF ~decoded.ok THEN CroErr("Bech32Error", decoded.err)
          ELSE IF ~hash.ok THEN CroErr("ConvertError", "")
          ELSE IF Len(hash.out) # HashLen
               THEN CroPanic("source slice length does not match destination slice length")
          ELSE CroOk(OrTree(hash.out))

\* impl fmt::Display: to_cro under the current network, unwrapped
Display_fmt(addr, current) == to_cro(addr, current).text

\* impl FromStr: from_cro under the current network, every error mapped to ConvertError
from_str(s, current) ==
  LET r == from_cro(s, current)
  IN IF r.kind = "Err" THEN CroErr("ConvertError", "") ELSE r

(***************************************************************************)
(* WithdrawUnbondedTx: state/account/op/data/withdraw.rs, with the types   *)
(* of its fields (Nonce, TxOut, Coin, TxAttributes).                       *)
(***************************************************************************)
\* Nonce is a u64
Nonce_encode(nonce) == u64_encode(nonce)

Nonce_decode(input) == u64_decode(input)

\* Coin: a u64 of at most the maximum
Coin_encode(coin) == u64_encode(coin)

Coin_decode(input) ==
  LET r == u64_decode(input)
  IN IF r.ok /\ r.val > MaxCoin THEN Fail("Coin out of range") ELSE r

\* TxOut: the address, then the coin value
TxOut_encode(out) == ExtendedAddr_encode(out.address) \o Coin_encode(out.value)

TxOut_decode(input) ==
  LET a == ExtendedAddr_decode(input)
      v == Coin_decode(a.rest)
  IN IF ~a.ok THEN a
     ELSE IF ~v.ok THEN v
     ELSE Ok([address |-> a.val, value |-> v.val], v.rest)

\* TxAttributes: the network identifier byte and the application version
TxAttributes_encode(attributes) ==
  <<attributes.chain_hex_id>> \o u64_encode(attributes.app_version)

TxAttributes_decode(input) ==
  LET c == read(input, 1)
      v == u64_decode(c.rest)
  IN IF ~c.ok THEN c
     ELSE IF ~v.ok THEN v
     ELSE Ok([chain_hex_id |-> c.val[1], app_version |-> v.val], v.rest)

\* Vec<TxOut>: the compact length, then the elements in order
Vec_TxOut_encode(outputs) ==
  Compact_encode(Len(outputs)) \o Flatten([i \in 1..Len(outputs) |-> TxOut_encode(outputs[i])])

RECURSIVE TxOut_decode_n(_, _)
TxOut_decode_n(input, n) ==
  IF n = 0 THEN Ok(<<>>, input)
  ELSE LET first == TxOut_decode(input)
           others == TxOut_decode_n(first.rest, n - 1)
       IN IF ~first.ok THEN first
          ELSE IF ~others.ok THEN others
          ELSE Ok(<<first.val>> \o others.val, others.rest)

Vec_TxOut_decode(input) ==
  LET len == Compact_decode(input)
  IN IF ~len.ok THEN len ELSE TxOut_decode_n(len.rest, len.val)

\* WithdrawUnbondedTx::new
WithdrawUnbondedTx_new(nonce, outputs, attributes) ==
  [nonce |-> nonce, outputs |-> outputs, attributes |-> attributes]

\* impl Encode for WithdrawUnbondedTx: nonce, outputs, attributes
WithdrawUnbondedTx_encode(tx) ==
  Nonce_encode(tx.nonce) \o Vec_TxOut_encode(tx.outputs) \o TxAttributes_encode(tx.attributes)

\* WithdrawUnbondedTx_decode refusing input left behind the transaction
WithdrawUnbondedTx_decode_all(input) ==
  LET nonce == Nonce_decode(input)
      outputs == Vec_TxOut_decode(nonce.rest)
      attributes == TxAttributes_decode(outputs.rest)
  IN IF ~nonce.ok THEN nonce
     ELSE IF ~outputs.ok THEN outputs
     ELSE IF ~attributes.ok THEN attributes
     ELSE IF attributes.rest # <<>> THEN Fail("Input buffer has still data left after decoding")
     ELSE Ok(WithdrawUnbondedTx_new(nonce.val, outputs.val, attributes.val), attributes.rest)

\* impl Decode for WithdrawUnbondedTx: the three fields in the same order
WithdrawUnbondedTx_decode(input) ==
  LET nonce == Nonce_decode(input)
      outputs == Vec_TxOut_decode(nonce.rest)
      attributes == TxAttributes_decode(outputs.rest)
  IN IF ~nonce.ok THEN nonce
     ELSE IF ~outputs.ok THEN outputs
     ELSE IF ~attributes.ok THEN attributes
     ELSE Ok(WithdrawUnbondedTx_new(nonce.val, outputs.val, attributes.val), attributes.rest)

\* Coin + Coin: the checked sum, an error beyond the maximum
Coin_add(a, b) ==
  IF a + b > MaxCoin THEN [ok |-> FALSE, err |-> "OutOfBound", val |-> 0]
  ELSE [ok |-> TRUE, err |-> "", val |-> a + b]

\* sum_coins: fold from zero with the checked sum, the first error ends it
RECURSIVE sum_coins_from(_, _, _)
sum_coins_from(coins, i, acc) ==
  IF ~acc.ok \/ i > Len(coins) THEN acc
  ELSE sum_coins_from(coins, i + 1, Coin_add(acc.val, coins[i]))

sum_coins(coins) == sum_coins_from(coins, 1, [ok |-> TRUE, err |-> "", val |-> 0])

\* get_output_total clamping an overflowing total to the maximum
get_output_total_clamped(tx) ==
  LET total == sum_coins([i \in 1..Len(tx.outputs) |-> tx.outputs[i].value])
  IN IF total.ok THEN total ELSE [ok |-> TRUE, err |-> "", val |-> MaxCoin]

\* get_output_total: sum_coins over the outputs' values
get_output_total(tx) == sum_coins([i \in 1..Len(tx.outputs) |-> tx.outputs[i].value])

(***************************************************************************)
(* The inputs of the model.                                                *)
(***************************************************************************)
ZeroRoot == Repeat(0, HashLen)

OnesRoot == Repeat(255, HashLen)

\* the root of the tests of address.rs, 0e7c0451...aabb
TestRoot ==
  << 14, 124, 4, 81, 16, 184, 219, 242, 151, 101, 4, 115, 128, 137, 137, 25,
     197, 203, 86, 244, 0, 17, 34, 51, 68, 85, 102, 119, 136, 153, 170, 187 >>

\* its textual address on Devnet, as the tests of address.rs give it
TestText ==
  << "d", "c", "r", "o", "1", "p", "e", "7", "q", "g", "5", "g", "s", "h", "r", "d", "l", "9", "9", "m", "9",
     "q", "3", "e", "c", "p", "z", "v", "f", "r", "8", "z", "u", "k", "4", "h", "5", "q", "q", "g", "j", "y",
     "v", "6", "y", "2", "4", "n", "8", "0", "z", "y", "e", "4", "2", "a", "s", "8", "8", "x", "8", "t", "g" >>

Roots == {ZeroRoot, OnesRoot, TestRoot}

Nonces == {0, 258}

Coins == {0, 1, MaxCoin}

Attributes == {[chain_hex_id |-> 0, app_version |-> 0], [chain_hex_id |-> 171, app_version |-> 1]}

TxOuts == {[address |-> OrTree(r), value |-> c] : r \in {ZeroRoot, TestRoot}, c \in Coins}

OutputLists == UNION {[1..n -> TxOuts] : n \in 0..MaxOutputs}

\* bytes appended behind an encoding
ExtraBytes == {0, 255}

\* byte strings handed to the address decoder: any discriminant, a whole, short or no root
InjectedWires ==
  {<<>>} \cup
  {<<t>> \o body : t \in {0, 1, 2, 255},
                   body \in {<<>>, ZeroRoot, TestRoot, SubSeq(TestRoot, 1, HashLen - 1)}}

\* what a crafted address carries behind a network's human-readable part
CraftSuffixes == {<<>>, <<"x">>, <<"1", "x">>}

\* 5-bit data of crafted addresses: no byte, 31, 32 and 33 bytes, and a lone symbol
CraftData ==
  {to_base32(<<>>), to_base32(SubSeq(TestRoot, 1, HashLen - 1)), to_base32(TestRoot),
   to_base32(TestRoot \o <<7>>), <<1>>}

\* characters written over one of an address: in the alphabet, outside it, upper case,
\* and the separator
CorruptChars == {"q", "b", "Q", "1"}

\* the places written over: the first character, the separator, the first symbol, the last
CorruptPositions(s, network) ==
  LET sep == Len(get_bech32_human_part_from_network(network)) + 1
  IN {1, sep, sep + 1, Len(s)}

(***************************************************************************)
(* The state: one value taken through the binary or the textual form.      *)
(***************************************************************************)
VARIABLES
  current,  \* the process-wide network, get_network()
  last,     \* the operation that ran last
  value,    \* the address or transaction in hand
  wire,     \* bytes: an encoding, with what was appended, or injected bytes
  extra,    \* the bytes appended behind the encoding
  text,     \* a textual address
  source,   \* where wire or text came from
  damage,   \* the position of text written over, 0 when none
  net,      \* the network text was made for
  arg,      \* the network the text was parsed under
  result    \* what the last decode, parse or total returned

vars == <<current, last, value, wire, extra, text, source, damage, net, arg, result>>

NoNetwork == "None"

Init ==
  /\ current \in Networks
  /\ last = "start"
  /\ value = Nothing
  /\ wire = <<>>
  /\ extra = <<>>
  /\ text = <<>>
  /\ source = "none"
  /\ damage = 0
  /\ net = NoNetwork
  /\ arg = NoNetwork
  /\ result = Nothing

\* ExtendedAddr::OrTree(root)
NewAddr(root) ==
  /\ last = "start"
  /\ value' = OrTree(root)
  /\ last' = "new_addr"
  /\ UNCHANGED <<current, wire, extra, text, source, damage, net, arg, result>>

\* WithdrawUnbondedTx::new(nonce, outputs, attributes)
NewTx(nonce, outputs, attributes) ==
  /\ last = "start"
  /\ value' = WithdrawUnbondedTx_new(nonce, outputs, attributes)
  /\ last' = "new_tx"
  /\ UNCHANGED <<current, wire, extra, text, source, damage, net, arg, result>>

\* addr.encode()
EncodeAddr ==
  /\ last = "new_addr"
  /\ wire' = ExtendedAddr_encode(value)
  /\ source' = "encode_addr"
  /\ last' = "encode_addr"
  /\ UNCHANGED <<current, value, extra, text, damage, net, arg, result>>

\* tx.encode()
EncodeTx ==
  /\ last = "new_tx"
  /\ wire' = WithdrawUnbondedTx_encode(value)
  /\ source' = "encode_tx"
  /\ last' = "encode_tx"
  /\ UNCHANGED <<current, value, extra, text, damage, net, arg, result>>

\* bytes follow the encoding on the input
AppendByte(b) ==
  /\ last \in {"encode_addr", "encode_tx", "append"}
  /\ Len(extra) < MaxExtra
  /\ wire' = wire \o <<b>>
  /\ extra' = extra \o <<b>>
  /\ last' = "append"
  /\ UNCHANGED <<current, value, text, source, damage, net, arg, result>>

\* bytes from elsewhere reach the address decoder
InjectWire(bytes) ==
  /\ last = "start"
  /\ wire' = bytes
  /\ source' = "inject"
  /\ last' = "inject"
  /\ UNCHANGED <<current, value, extra, text, damage, net, arg, result>>

\* ExtendedAddr::decode(&mut input)
DecodeAddr ==
  /\ last \in {"encode_addr", "append", "inject"}
  /\ source \in {"encode_addr", "inject"}
  /\ result' = ExtendedAddr_decode(wire)
  /\ last' = "decode_addr"
  /\ UNCHANGED <<current, value, wire, extra, text, source, damage, net, arg>>

\* WithdrawUnbondedTx::decode(&mut input)
DecodeTx ==
  /\ last \in {"encode_tx", "append"}
  /\ source = "encode_tx"
  /\ result' = WithdrawUnbondedTx_decode(wire)
  /\ last' = "decode_tx"
  /\ UNCHANGED <<current, value, wire, extra, text, source, damage, net, arg>>

\* tx.get_output_total()
GetOutputTotal ==
  /\ last = "new_tx"
  /\ result' = get_output_total(value)
  /\ last' = "get_output_total"
  /\ UNCHANGED <<current, value, wire, extra, text, source, damage, net, arg>>

\* addr.to_cro(network)
ToCro(network) ==
  /\ last = "new_addr"
  /\ LET r == to_cro(value, network)
     IN /\ result' = r
        /\ text' = r.text
  /\ net' = network
  /\ source' = "to_cro"
  /\ last' = "to_cro"
  /\ UNCHANGED <<current, value, wire, extra, damage, arg>>

\* addr.to_string()
Display ==
  /\ last = "new_addr"
  /\ text' = Display_fmt(value, current)
  /\ net' = current
  /\ source' = "display"
  /\ last' = "display"
  /\ UNCHANGED <<current, value, wire, extra, damage, arg, result>>

\* a checksummed string made outside: a network's prefix, a suffix, any data
CraftText(network, suffix, data) ==
  /\ last = "start"
  /\ text' = bech32_encode(get_bech32_human_part_from_network(network) \o suffix, data).text
  /\ net' = network
  /\ source' = "craft"
  /\ last' = "craft"
  /\ UNCHANGED <<current, value, wire, extra, damage, arg, result>>

\* one character of an address is written over by another
Corrupt(i, c) ==
  /\ last \in {"to_cro", "display"}
  /\ i \in CorruptPositions(text, net)
  /\ text[i] # c
  /\ text' = ReplaceAt(text, i, c)
  /\ damage' = i
  /\ last' = "corrupt"
  /\ UNCHANGED <<current, value, wire, extra, source, net, arg, result>>

\* ExtendedAddr::from_cro(text, network)
FromCro(network) ==
  /\ last \in {"to_cro", "display", "craft", "corrupt"}
  /\ result' = from_cro(text, network)
  /\ arg' = network
  /\ last' = "from_cro"
  /\ UNCHANGED <<current, value, wire, extra, text, source, damage, net>>

\* ExtendedAddr::from_str(text)
FromStr ==
  /\ last \in {"to_cro", "display", "craft", "corrupt"}
  /\ result' = from_str(text, current)
  /\ arg' = current
  /\ last' = "from_str"
  /\ UNCHANGED <<current, value, wire, extra, text, source, damage, net>>

Next ==
  \/ \E root \in Roots : NewAddr(root)
  \/ \E nonce \in Nonces, outputs \in OutputLists, attributes \in Attributes :
       NewTx(nonce, outputs, attributes)
  \/ EncodeAddr
  \/ EncodeTx
  \/ \E b \in ExtraBytes : AppendByte(b)
  \/ \E bytes \in InjectedWires : InjectWire(bytes)
  \/ DecodeAddr
  \/ DecodeTx
  \/ GetOutputTotal
  \/ \E network \in Networks : ToCro(network)
  \/ Display
  \/ \E network \in Networks, suffix \in CraftSuffixes, data \in CraftData :
       CraftText(network, suffix, data)
  \/ \E i \in 1..Len(text), c \in CorruptChars : Corrupt(i, c)
  \/ \E network \in Networks : FromCro(network)
  \/ FromStr

Spec == Init /\ [][Next]_vars

(***************************************************************************)
(* The properties.                                                         *)
(***************************************************************************)
\* the arithmetic sum of a sequence of naturals
RECURSIVE Sum(_)
Sum(xs) == IF xs = <<>> THEN 0 ELSE Head(xs) + Sum(Tail(xs))

\* the human-readable part of a text: what stands before its last separator
HumanPart(s) == SubSeq(s, 1, rfind_sep(s) - 1)

\* a text with its last character replaced by another of the alphabet
BadChecksum(s) == ReplaceAt(s, Len(s), IF s[Len(s)] = "q" THEN "p" ELSE "q")

\* the wire is an encoding of value, followed by the bytes of extra
Encoded == source \in {"encode_addr", "encode_tx"}

\* the text is an address as to_cro wrote it for network net
Written == source = "to_cro" /\ damage = 0

\* C1: decoding the encoding of an address or of a transaction returns that
\* value, and leaves nothing of the input.
C1_BinaryRoundTrip ==
  (last \in {"decode_addr", "decode_tx"} /\ Encoded /\ extra = <<>>)
    => result = Ok(value, <<>>)

C1_Witness ==
  /\ last = "decode_tx"
  /\ extra = <<>>
  /\ Len(value.outputs) >= 2
  /\ value.nonce # 0
  /\ result.ok

\* C2: to_cro succeeds, gives the address of the test for the root of the test on
\* Devnet, and from_cro under the same network returns the address it was given.
C2_TextRoundTrip ==
  /\ last = "to_cro" => result.kind = "Ok"
  /\ (last = "to_cro" /\ value = OrTree(TestRoot) /\ net = "Devnet") => text = TestText
  /\ (last = "from_cro" /\ Written /\ arg = net) => result = CroOk(value)

C2_Witness ==
  /\ last = "from_cro"
  /\ Written
  /\ arg = net
  /\ value = OrTree(TestRoot)
  /\ result.kind = "Ok"

\* C3: an address written for one network and parsed under another is refused
\* with InvalidNetwork.
C3_NetworkIsolation ==
  (last = "from_cro" /\ Written /\ arg # net) => result = CroErr("InvalidNetwork", "")

C3_Witness ==
  /\ last = "from_cro"
  /\ Written
  /\ net = "Devnet"
  /\ arg = "Mainnet"
  /\ result.err = "InvalidNetwork"

\* C4: a binary address whose first byte is not 0 is refused with the
\* unknown-variant error, whatever follows the byte.
C4_DiscriminantRejection ==
  (last = "decode_addr" /\ wire # <<>> /\ wire[1] # 0)
    => result = Fail("No such variant in enum ExtendedAddr")

C4_Witness ==
  /\ last = "decode_addr"
  /\ Len(wire) = HashLen + 1
  /\ wire[1] = 1
  /\ ~result.ok

\* C5: get_output_total returns the arithmetic sum of the outputs' values when
\* that is within the maximum, zero for no output, and an error beyond the maximum.
C5_OutputTotal ==
  last = "get_output_total" =>
    LET total == Sum([i \in 1..Len(value.outputs) |-> value.outputs[i].value])
    IN /\ total <= MaxCoin => result = [ok |-> TRUE, err |-> "", val |-> total]
       /\ total > MaxCoin => ~result.ok
       /\ value.outputs = <<>> => result.ok /\ result.val = 0

C5_Witness ==
  /\ last = "get_output_total"
  /\ Len(value.outputs) >= 2
  /\ ~result.ok

C7_WrongLengthIsError ==
  (/\ last = "from_cro"
   /\ StartsWith(text, get_bech32_human_part_from_network(arg))
   /\ bech32_decode(text).ok
   /\ from_base32(bech32_decode(text).data).ok
   /\ Len(from_base32(bech32_decode(text).data).out) # HashLen)
    => result.kind = "Err"

\* C8: from_str answers an address of another network with an error other than
\* the one it gives an address of the current network with a bad checksum.
C8_ErrorClassesDistinct ==
  (last = "from_str" /\ Written /\ net # current)
    => /\ result.kind = "Err"
       /\ result # from_str(BadChecksum(Display_fmt(value, current)), current)

\* C9: from_cro answers InvalidNetwork to every text that does not start with the
\* network's prefix, a bad checksum or not, and Bech32Error to every text that
\* starts with it and fails the validation of bech32.
C9_NetworkCheckFirst ==
  last = "from_cro" =>
    LET starts == StartsWith(text, get_bech32_human_part_from_network(arg))
    IN /\ ~starts => result = CroErr("InvalidNetwork", "")
       /\ (starts /\ (damage # 0 \/ ~bech32_decode(text).ok))
            => result.kind = "Err" /\ result.err = "Bech32Error"

C9_Witness ==
  /\ last = "from_cro"
  /\ damage = 1
  /\ arg = net
  /\ ~bech32_decode(text).ok
  /\ result.err = "InvalidNetwork"

\* C10: from_cro returns an address only for a text whose human-readable part is
\* the network's prefix.
C10_ExactHumanPart ==
  (last = "from_cro" /\ result.kind = "Ok")
    => HumanPart(text) = get_bech32_human_part_from_network(arg)

====
